---- MODULE Spec2Model ----
(***************************************************************************)
(* Model of FINE/spagat/grouping_utils.py: the preprocessors, the custom   *)
(* region distance, the connectivity matrix and the modularity score.      *)
(*                                                                         *)
(* Numbers are numpy float64 values.  They are modelled as exact rationals *)
(* together with the IEEE specials nan and +/-inf, so that a missing value *)
(* (nan) and a division by zero behave as numpy makes them behave.         *)
(* A number is a record [k, n, d]: k = "fin" with n/d in lowest terms and  *)
(* d > 0, k = "nan", or k = "inf" with n the sign (1 or -1).               *)
(***************************************************************************)
EXTENDS Integers, Sequences, FiniteSets, TLC

\* ------------------------------------------------------------------------
\* Bounds of the model
\* ------------------------------------------------------------------------
MaxRegions == 4

MaxComponents == 2

MaxVal == 2

MaxCells == 1

MaxWeight == 2

TimeSteps == 2

MaxNodes == 3

MaxEdges == 2

MaxLevels == 2

\* ------------------------------------------------------------------------
\* float64 arithmetic (exact rationals, nan, inf)
\* ------------------------------------------------------------------------
Abs(i) == IF i < 0 THEN -i ELSE i

Sign(i) == IF i < 0 THEN -1 ELSE IF i = 0 THEN 0 ELSE 1

RECURSIVE Gcd(_, _)
Gcd(a, b) == IF b = 0 THEN a ELSE Gcd(b, a % b)

nan == [k |-> "nan", n |-> 0, d |-> 1]

Inf(s) == [k |-> "inf", n |-> s, d |-> 1]

\* n/d for d # 0, in lowest terms with a positive denominator
Frac(n, d) ==
    LET g == Gcd(Abs(n), Abs(d))
    IN  [k |-> "fin", n |-> (Sign(d) * n) \div g, d |-> Abs(d) \div g]

Num(i) == [k |-> "fin", n |-> i, d |-> 1]

isnan(a) == a.k = "nan"

IsFin(a) == a.k = "fin"

\* the sign of a number that is not nan
SignOf(a) == Sign(a.n)

Neg(a) == IF a.k = "nan" THEN nan ELSE [a EXCEPT !.n = -a.n]

Add(a, b) ==
    IF a.k = "nan" \/ b.k = "nan" THEN nan
    ELSE IF a.k = "inf" /\ b.k = "inf" THEN (IF a.n = b.n THEN a ELSE nan)
    ELSE IF a.k = "inf" THEN a
    ELSE IF b.k = "inf" THEN b
    ELSE Frac(a.n * b.d + b.n * a.d, a.d * b.d)

Sub(a, b) == Add(a, Neg(b))

Mul(a, b) ==
    IF a.k = "nan" \/ b.k = "nan" THEN nan
    ELSE IF a.k = "inf" \/ b.k = "inf"
         THEN (IF SignOf(a) * SignOf(b) = 0 THEN nan ELSE Inf(SignOf(a) * SignOf(b)))
    ELSE Frac(a.n * b.n, a.d * b.d)

\* numpy true division: x/0 is nan for x = 0 and +/-inf otherwise (a warning, no error)
Div(a, b) ==
    IF a.k = "nan" \/ b.k = "nan" THEN nan
    ELSE IF a.k = "inf" /\ b.k = "inf" THEN nan
    ELSE IF a.k = "inf" THEN Inf(IF SignOf(b) < 0 THEN -a.n ELSE a.n)
    ELSE IF b.k = "inf" THEN Num(0)
    ELSE IF b.n = 0 THEN (IF a.n = 0 THEN nan ELSE Inf(Sign(a.n)))
    ELSE Frac(a.n * b.d, a.d * b.n)

\* a == b of floats: never true of nan
Eq(a, b) == a.k # "nan" /\ b.k # "nan" /\ a = b

\* a != b of floats: true whenever either side is nan
Ne(a, b) == ~Eq(a, b)

Lt(a, b) ==
    IF a.k = "nan" \/ b.k = "nan" THEN FALSE
    ELSE IF a.k = "inf" THEN a.n < 0 /\ ~(b.k = "inf" /\ b.n < 0)
    ELSE IF b.k = "inf" THEN b.n > 0
    ELSE a.n * b.d < b.n * a.d

Le(a, b) == Lt(a, b) \/ Eq(a, b)

Sq(a) == Mul(a, a)

\* the sum of the numbers f[i], i in S
RECURSIVE SumOver(_, _)
SumOver(f, S) ==
    IF S = {} THEN Num(0)
    ELSE LET i == CHOOSE j \in S : \A m \in S : j <= m
         IN  Add(f[i], SumOver(f, S \ {i}))

\* ------------------------------------------------------------------------
\* numpy arrays: a matrix is a function [0..rows-1 -> [0..cols-1 -> number]],
\* a vector a function [0..len-1 -> number]
\* ------------------------------------------------------------------------
Range(k) == 0 .. (k - 1)

Len0(v) == Cardinality(DOMAIN v)

NCols(m) == IF DOMAIN m = {} THEN 0 ELSE Len0(m[0])

Entries(m) == {m[i][j] : i \in DOMAIN m, j \in Range(NCols(m))}

\* np.max / np.min of an array: nan as soon as one entry is nan
npMax(m) ==
    LET E == Entries(m)
    IN  IF \E e \in E : isnan(e) THEN nan
        ELSE CHOOSE a \in E : \A e \in E : Le(e, a)

npMin(m) ==
    LET E == Entries(m)
    IN  IF \E e \in E : isnan(e) THEN nan
        ELSE CHOOSE a \in E : \A e \in E : Le(a, e)

\* np.concatenate((a, b), axis=1)
ConcatCols(a, b) ==
    [i \in DOMAIN a |->
        [j \in Range(NCols(a) + NCols(b)) |->
            IF j < NCols(a) THEN a[i][j] ELSE b[i][j - NCols(a)]]]

\* a matrix of n rows and no column
NoCols(n) == [i \in Range(n) |-> [j \in {} |-> nan]]

\* the mean of the numbers in the bag f (a function), skipping nan as xarray's
\* mean does: nan when nothing is left
NanMean(f) ==
    LET S == {i \in DOMAIN f : ~isnan(f[i])}
    IN  Div(SumOver(f, S), Num(Cardinality(S)))

\* ------------------------------------------------------------------------
\* matrix_MinMaxScaler
\* ------------------------------------------------------------------------
\* the scaler with the range left out: always to [0, 1]
matrix_MinMaxScaler_UnitRange(matrix, scaled_min, scaled_max) ==
    LET mx == npMax(matrix)
        mn == npMin(matrix)
    IN  IF Eq(mx, mn) THEN matrix
        ELSE [i \in DOMAIN matrix |->
                [j \in DOMAIN matrix[i] |-> Div(Sub(matrix[i][j], mn), Sub(mx, mn))]]

matrix_MinMaxScaler(matrix, scaled_min, scaled_max) ==
    LET mx == npMax(matrix)
        mn == npMin(matrix)
    IN  IF Eq(mx, mn) THEN matrix
        ELSE [i \in DOMAIN matrix |->
                [j \in DOMAIN matrix[i] |->
                    Add(Mul(Div(Sub(matrix[i][j], mn), Sub(mx, mn)),
                            Sub(scaled_max, scaled_min)),
                        scaled_min)]]

\* ------------------------------------------------------------------------
\* Python dicts keep insertion order: a dict is a sequence of [key, val]
\* ------------------------------------------------------------------------
Keys(dict) == {dict[i].key : i \in DOMAIN dict}

Get(dict, key) == (CHOOSE i \in DOMAIN dict : dict[i].key = key)

Lookup(dict, key) == dict[Get(dict, key)].val

\* ------------------------------------------------------------------------
\* The dataset (sds.xr_dataset).  A data variable is a record
\*   [name, dims, space, space_2, values]
\* dims is the tuple of its dimension names, values[c] the slice of component
\* index c (a region x 1, a region x TimeStep or a region x region matrix),
\* space and space_2 the labels of its region axes.
\* ------------------------------------------------------------------------
DimsTs == <<"component", "Period", "TimeStep", "space">>

Dims1d == <<"component", "space">>

Dims2d == <<"component", "space", "space_2">>

\* sorted(da.dims) == sorted(t): the same names, in any order
SameDims(dims, t) ==
    /\ Len(dims) = Len(t)
    /\ {dims[i] : i \in DOMAIN dims} = {t[i] : i \in DOMAIN t}

\* da.mean(dim="space").mean(dim=...) of one component slice: the mean over
\* the regions of every column, then the mean of those means
MeanOfMeans(slice) ==
    NanMean([j \in Range(NCols(slice)) |->
                NanMean([i \in DOMAIN slice |-> slice[i][j]])])

\* a vector over the regions as a one-column matrix
AsColumn(vec) == [i \in DOMAIN vec |-> [j \in Range(1) |-> vec[i]]]

\* valid_component_ids: the component ids whose mean is not nan, ascending
RECURSIVE Ascending(_)
Ascending(S) ==
    IF S = {} THEN <<>>
    ELSE LET a == CHOOSE x \in S : \A y \in S : x <= y
         IN  <<a>> \o Ascending(S \ {a})

validComponentIds(slices, n_components) ==
    Ascending({c \in Range(n_components) : ~isnan(MeanOfMeans(slices[c]))})

\* ------------------------------------------------------------------------
\* preprocessTimeSeries
\* ------------------------------------------------------------------------
RECURSIVE ConcatScaledBlocks(_, _, _)
ConcatScaledBlocks(matrix_var, values, ids) ==
    IF ids = <<>> THEN matrix_var
    ELSE ConcatScaledBlocks(
            ConcatCols(matrix_var, matrix_MinMaxScaler(values[Head(ids)], Num(0), Num(1))),
            values, Tail(ids))

preprocessTimeSeries(vars_dict, n_regions, n_components) ==
    [v \in DOMAIN vars_dict |->
        [key |-> vars_dict[v].key,
         val |-> ConcatScaledBlocks(NoCols(n_regions), vars_dict[v].val.values,
                    validComponentIds(vars_dict[v].val.values, n_components))]]

\* ------------------------------------------------------------------------
\* preprocess1dVariables
\* ------------------------------------------------------------------------
\* np.nanmin / np.nanmax of column j, as sklearn's MinMaxScaler.fit takes them
ColNanMin(X, j) ==
    LET E == {X[i][j] : i \in DOMAIN X} \ {nan}
    IN  IF E = {} THEN nan ELSE CHOOSE a \in E : \A e \in E : Le(a, e)

ColNanMax(X, j) ==
    LET E == {X[i][j] : i \in DOMAIN X} \ {nan}
    IN  IF E = {} THEN nan ELSE CHOOSE a \in E : \A e \in E : Le(e, a)

\* prep.MinMaxScaler().fit_transform(X): every column scaled with its own
\* minimum and maximum; a column of range 0 gets scale 1
MinMaxScaler_fit_transform(X) ==
    [i \in DOMAIN X |->
        [j \in DOMAIN X[i] |->
            LET mn == ColNanMin(X, j)
                rg == Sub(ColNanMax(X, j), mn)
                scale == IF Eq(rg, Num(0)) THEN Num(1) ELSE Div(Num(1), rg)
            IN  Add(Mul(X[i][j], scale), Sub(Num(0), Mul(mn, scale)))]]

\* da.values[valid_component_ids] transposed: region x valid component
ValidColumns(values, ids) ==
    [i \in DOMAIN values[0] |-> [j \in Range(Len(ids)) |-> values[ids[j + 1]][i][0]]]

\* sklearn refuses an array with no feature (column): ValueError
preprocess1dVariables(vars_dict, n_components) ==
    IF \E v \in DOMAIN vars_dict :
          validComponentIds(vars_dict[v].val.values, n_components) = <<>>
    THEN [err |-> "ValueError", val |-> <<>>]
    ELSE [err |-> "none",
          val |-> [v \in DOMAIN vars_dict |->
                    [key |-> vars_dict[v].key,
                     val |-> MinMaxScaler_fit_transform(
                                ValidColumns(vars_dict[v].val.values,
                                    validComponentIds(vars_dict[v].val.values, n_components)))]]]

\* ------------------------------------------------------------------------
\* preprocess2dVariables
\* ------------------------------------------------------------------------
\* pd.DataFrame(data=var_matr, columns=space2)[space1]: the columns taken in
\* the order of the labels of space1
ReorderColumns(var_matr, space1, space2) ==
    [i \in DOMAIN var_matr |->
        [j \in DOMAIN space1 |->
            var_matr[i][CHOOSE k \in DOMAIN space2 : space2[k] = space1[j]]]]

\* the pairs x < y of 0..n-1 that come before (i, j) in row-major order
PairsBefore(n, i, j) ==
    {p \in Range(n) \X Range(n) :
        /\ p[1] < p[2]
        /\ (p[1] < i \/ (p[1] = i /\ p[2] < j))}

\* scipy squareform(data, checks=False) of a square matrix: its upper
\* triangle, row by row
squareform(data) ==
    LET n == Len0(data)
    IN  [k \in Range((n * (n - 1)) \div 2) |->
            LET p == CHOOSE q \in Range(n) \X Range(n) :
                        q[1] < q[2] /\ Cardinality(PairsBefore(n, q[1], q[2])) = k
            IN  data[p[1]][p[2]]]

\* STEP 1-3: for every variable the dict {comp_id: scaled matrix}
ScaledComponents(da, n_components) ==
    LET ids == validComponentIds(da.values, n_components)
    IN  [c \in DOMAIN ids |->
            [key |-> ids[c],
             val |-> matrix_MinMaxScaler(
                        ReorderColumns(da.values[ids[c]], da.space, da.space_2),
                        Num(0), Num(1))]]

\* STEP 2a, da_comp_df[space1]: pandas raises a KeyError for a label of space
\* that is no column, i.e. no label of space_2
reorderError(da, n_components) ==
    IF /\ validComponentIds(da.values, n_components) # <<>>
       /\ \E j \in DOMAIN da.space : \A k \in DOMAIN da.space_2 : da.space_2[k] # da.space[j]
    THEN "KeyError" ELSE "none"

\* STEP 4: the condensed vector of 1 - connectivity
toDissimilarityVec(data) ==
    LET vec == squareform(data)
    IN  [k \in DOMAIN vec |-> Sub(Num(1), vec[k])]

preprocess2dVariables(vars_dict, n_components, handle_mode) ==
    [v \in DOMAIN vars_dict |->
        [key |-> vars_dict[v].key,
         val |-> LET var_dict == ScaledComponents(vars_dict[v].val, n_components)
                 IN  IF handle_mode = "toDissimilarity"
                     THEN [c \in DOMAIN var_dict |->
                            [key |-> var_dict[c].key,
                             val |-> toDissimilarityVec(var_dict[c].val)]]
                     ELSE var_dict]]

\* ------------------------------------------------------------------------
\* Weightings.  An optional argument is a record [none, map]: none is TRUE
\* for Python's None; map is the dict (a function from names to weights) or
\* the list given.
\* ------------------------------------------------------------------------
None == [none |-> TRUE, map |-> <<>>]

Given(m) == [none |-> FALSE, map |-> m]

\* Python's truth value of an optional dict or list: None and the empty
\* container are both false
Truthy(arg) == ~arg.none /\ DOMAIN arg.map # {}

\* dict.fromkeys(vars_list, 1)
fromkeys(vars_list, w) == [name \in vars_list |-> w]

\* ------------------------------------------------------------------------
\* preprocessDataset
\* ------------------------------------------------------------------------
\* STEP 0: the variables of one category, as a dict name -> DataArray
VarsDict(sel) == [i \in DOMAIN sel |-> [key |-> sel[i].name, val |-> sel[i]]]

IsTs(da) == SameDims(da.dims, DimsTs)

Is1d(da) == SameDims(da.dims, Dims1d)

Is2d(da) == SameDims(da.dims, Dims2d)

n_components_of(sds) == Len(sds.component_list)

\* STEP 4a/4b: the weighted matrices of a category side by side
RECURSIVE ConcatWeighted(_, _, _)
ConcatWeighted(acc, dict, weights) ==
    IF dict = <<>> THEN acc
    ELSE ConcatWeighted(
            ConcatCols(acc,
                [i \in DOMAIN acc |->
                    [j \in DOMAIN Head(dict).val[i] |->
                        Mul(Head(dict).val[i][j], Num(weights[Head(dict).key]))]]),
            Tail(dict), weights)

\* STEP 4c: the sum of every (variable, component) matrix times its weight
Sum2d(ds_2d_vars, weights, n_regions) ==
    [i \in Range(n_regions) |->
        [j \in Range(n_regions) |->
            SumOver([v \in DOMAIN ds_2d_vars |->
                        Mul(SumOver([c \in DOMAIN ds_2d_vars[v].val |->
                                        ds_2d_vars[v].val[c].val[i][j]],
                                    DOMAIN ds_2d_vars[v].val),
                            Num(weights[ds_2d_vars[v].key]))],
                    DOMAIN ds_2d_vars)]]

preprocessDataset(sds, handle_mode, var_weightings) ==
    LET n_components == n_components_of(sds)
        n_regions == sds.n_regions
        vars_ts == VarsDict(SelectSeq(sds.data_vars, IsTs))
        vars_1d == VarsDict(SelectSeq(sds.data_vars, Is1d))
        vars_2d == VarsDict(SelectSeq(sds.data_vars, Is2d))
        ds_timeseries == preprocessTimeSeries(vars_ts, n_regions, n_components)
        ds_1d_vars == preprocess1dVariables(vars_1d, n_components)
        ds_2d_vars == preprocess2dVariables(vars_2d, n_components, handle_mode)
        weights == IF Truthy(var_weightings) THEN var_weightings.map
                   ELSE fromkeys(Keys(vars_ts) \cup Keys(vars_1d) \cup Keys(vars_2d), 1)
        failed(e) == [err |-> e, mode |-> handle_mode,
                      ts |-> <<>>, d1 |-> <<>>, d2 |-> <<>>]
    IN  IF ds_1d_vars.err # "none" THEN failed(ds_1d_vars.err)
        ELSE IF handle_mode = "toDissimilarity"
        THEN [err |-> "none", mode |-> handle_mode,
              ts |-> ds_timeseries, d1 |-> ds_1d_vars.val, d2 |-> ds_2d_vars]
        ELSE IF ~(Keys(vars_ts) \cup Keys(vars_1d) \cup Keys(vars_2d) \subseteq DOMAIN weights)
        THEN failed("KeyError")
        ELSE [err |-> "none", mode |-> handle_mode,
              ts |-> ConcatWeighted(NoCols(n_regions), ds_timeseries, weights),
              d1 |-> ConcatWeighted(NoCols(n_regions), ds_1d_vars.val, weights),
              d2 |-> Sum2d(ds_2d_vars, weights, n_regions)]

\* ------------------------------------------------------------------------
\* selfDistance
\* ------------------------------------------------------------------------
\* STEP 3c (i): the place of the pair in the condensed vector, as the code
\* computes it
region_index_x_y(n_regions, region_index_x, region_index_y) ==
    region_index_x * (n_regions - region_index_x)
        + (region_index_y - region_index_x) - 1

\* data[i] of a numpy vector: a negative i counts from the end; IndexError
\* outside -len .. len-1
InIndexRange(data, i) == -Len0(data) <= i /\ i < Len0(data)

At(data, i) == IF i < 0 THEN data[Len0(data) + i] ELSE data[i]

\* the differences summed without being squared
SquaredDiffs_NotSquared(var_matr, x, y) ==
    SumOver([j \in DOMAIN var_matr[x] |-> Sub(var_matr[x][j], var_matr[y][j])],
            DOMAIN var_matr[x])

\* sum(np.power(region_x_data - region_y_data, 2))
SquaredDiffs(var_matr, x, y) ==
    SumOver([j \in DOMAIN var_matr[x] |-> Sq(Sub(var_matr[x][j], var_matr[y][j]))],
            DOMAIN var_matr[x])

\* STEP 3a / 3b: one category of feature matrices
distanceOfFeatures(dict, weights, x, y) ==
    SumOver([v \in DOMAIN dict |->
                Mul(SquaredDiffs(dict[v].val, x, y), Num(weights[dict[v].key]))],
            DOMAIN dict)

\* STEP 3c (ii): the pairwise category; an entry that is nan adds nothing
distance_2d(ds_2d, weights, idx) ==
    SumOver([v \in DOMAIN ds_2d |->
                Mul(SumOver([c \in DOMAIN ds_2d[v].val |->
                                IF isnan(At(ds_2d[v].val[c].val, idx)) THEN Num(0)
                                ELSE Sq(At(ds_2d[v].val[c].val, idx))],
                            DOMAIN ds_2d[v].val),
                    Num(weights[ds_2d[v].key]))],
            DOMAIN ds_2d)

\* what the loop over ds_2d raises first, if anything: the weight lookup of a
\* variable, then the reads of its vectors
RECURSIVE FirstError2d(_, _, _)
FirstError2d(ds_2d, weights, idx) ==
    IF ds_2d = <<>> THEN "none"
    ELSE IF Head(ds_2d).key \notin DOMAIN weights THEN "KeyError"
    ELSE IF \E c \in DOMAIN Head(ds_2d).val : ~InIndexRange(Head(ds_2d).val[c].val, idx)
         THEN "IndexError"
    ELSE FirstError2d(Tail(ds_2d), weights, idx)

selfDistance(ds_ts, ds_1d, ds_2d, n_regions, region_index_x, region_index_y, var_weightings, part_weightings) ==
    LET weights == IF Truthy(var_weightings) THEN var_weightings.map
                   ELSE fromkeys(Keys(ds_ts) \cup Keys(ds_1d) \cup Keys(ds_2d), 1)
        parts == IF Truthy(part_weightings) THEN part_weightings.map ELSE <<1, 1, 1>>
        idx == region_index_x_y(n_regions, region_index_x, region_index_y)
        err == IF ~(Keys(ds_ts) \cup Keys(ds_1d) \subseteq DOMAIN weights) THEN "KeyError"
               ELSE FirstError2d(ds_2d, weights, idx)
    IN  IF err # "none" THEN [err |-> err, val |-> nan]
        ELSE [err |-> "none",
              val |-> Add(Add(Mul(distanceOfFeatures(ds_ts, weights, region_index_x, region_index_y),
                                  Num(parts[1])),
                              Mul(distanceOfFeatures(ds_1d, weights, region_index_x, region_index_y),
                                  Num(parts[2]))),
                          Mul(distance_2d(ds_2d, weights, idx), Num(parts[3])))]

\* ------------------------------------------------------------------------
\* selfDistanceMatrix
\* ------------------------------------------------------------------------
\* STEP 1: the upper triangle
UpperDistances(ds_ts, ds_1d, ds_2d, n_regions, var_weightings) ==
    [i \in Range(n_regions) |->
        [j \in Range(n_regions) |->
            IF i < j
            THEN selfDistance(ds_ts, ds_1d, ds_2d, n_regions, i, j, var_weightings, None)
            ELSE [err |-> "none", val |-> Num(0)]]]

\* STEP 2 left out: the upper triangle as it is
Symmetrize_NoTranspose(m) == m

\* STEP 2: m += m.T - np.diag(m.diagonal())
Symmetrize(m) ==
    [i \in DOMAIN m |->
        [j \in DOMAIN m |->
            Add(m[i][j], Sub(m[j][i], IF i = j THEN m[i][i] ELSE Num(0)))]]

selfDistanceMatrix(ds_ts, ds_1d, ds_2d, n_regions, var_weightings) ==
    LET up == UpperDistances(ds_ts, ds_1d, ds_2d, n_regions, var_weightings)
        bad == {p \in Range(n_regions) \X Range(n_regions) : up[p[1]][p[2]].err # "none"}
    IN  IF bad # {}
        THEN [err |-> up[(CHOOSE p \in bad : \A q \in bad :
                            p[1] < q[1] \/ (p[1] = q[1] /\ p[2] <= q[2]))[1]]
                        [(CHOOSE p \in bad : \A q \in bad :
                            p[1] < q[1] \/ (p[1] = q[1] /\ p[2] <= q[2]))[2]].err,
              val |-> <<>>]
        ELSE [err |-> "none",
              val |-> Symmetrize([i \in Range(n_regions) |->
                                    [j \in Range(n_regions) |-> up[i][j].val]])]

\* ------------------------------------------------------------------------
\* generateConnectivityMatrix, checkConnectivity
\* ------------------------------------------------------------------------
\* the component names of the model whose lower-case form contains "pipeline"
PipelineNames == {"Pipeline_gas", "H2 PIPELINES"}

\* 'pipeline' in component_list[i].lower()
ContainsPipeline(name) == name \in PipelineNames

checkConnectivity(region_index_x, region_index_y, ds_2d, connect_components) ==
    \E v \in DOMAIN ds_2d :
        \E c \in DOMAIN ds_2d[v].val :
            /\ ds_2d[v].val[c].key \in connect_components
            /\ Ne(ds_2d[v].val[c].val[region_index_x][region_index_y], Num(0))

\* da.dims == ('component','space','space_2'): the names in this very order
HasDims2d(da) == da.dims = Dims2d

\* STEP 2-3: the components to look at
connectComponents(component_list) ==
    LET found == {i \in Range(Len(component_list)) : ContainsPipeline(component_list[i + 1])}
    IN  IF found = {} THEN Range(Len(component_list)) ELSE found

\* STEP 5 left out: the diagonal as it is
fill_diagonal_Skipped(m, v) == m

\* STEP 5: np.fill_diagonal(m, v)
fill_diagonal(m, v) ==
    [i \in DOMAIN m |-> [j \in DOMAIN m[i] |-> IF i = j THEN v ELSE m[i][j]]]

generateConnectivityMatrix(sds) ==
    LET vars_2d == VarsDict(SelectSeq(sds.data_vars, HasDims2d))
        n_regions == sds.n_regions
        ds_2d == preprocess2dVariables(vars_2d, n_components_of(sds), "toAffinity")
        connect_components == connectComponents(sds.component_list)
        upper == [i \in Range(n_regions) |->
                    [j \in Range(n_regions) |->
                        IF i < j /\ checkConnectivity(i, j, ds_2d, connect_components)
                        THEN Num(1) ELSE Num(0)]]
    IN  fill_diagonal(Symmetrize(upper), Num(1))

\* ------------------------------------------------------------------------
\* computeSilhouetteCoefficient.  aggregation_dict is a dict level -> dict
\* group -> list of regions.  The score of sklearn's silhouette_score is kept
\* as the arguments it was computed from.
\* ------------------------------------------------------------------------
\* regions_list.index(region): the first position that holds the region
index(regions_list, region) ==
    CHOOSE i \in DOMAIN regions_list :
        /\ regions_list[i] = region
        /\ \A j \in DOMAIN regions_list : regions_list[j] = region => i <= j

\* STEP 1 never skips a level
skipLevel_Never(k, n_regions) == FALSE

\* STEP 1: k == 1 or k == n_regions
skipLevel(k, n_regions) == k = 1 \/ k = n_regions

\* the label of a group is the one of the group before it
NextLabel_Stuck(label) == label

\* label += 1
NextLabel(label) == label + 1

\* STEP 2: the labels after the groups from the g-th on are gone through
RECURSIVE AssignLabels(_, _, _, _, _)
AssignLabels(labels, regions_list, groups, g, label) ==
    IF g > Len(groups) THEN labels
    ELSE LET inds == {index(regions_list, groups[g].val[r]) : r \in DOMAIN groups[g].val}
         IN  AssignLabels([i \in DOMAIN labels |-> IF i \in inds THEN label ELSE labels[i]],
                          regions_list, groups, g + 1, NextLabel(label))

\* metrics.silhouette_score(distanceMatrix, labels, metric='precomputed'): a
\* ValueError unless the number of labels is in 2 .. n_samples - 1
silhouette_score(distanceMatrix, labels) ==
    IF Cardinality({labels[i] : i \in DOMAIN labels}) \in 2 .. (Len0(labels) - 1)
    THEN [err |-> "none", val |-> [X |-> distanceMatrix, labels |-> labels]]
    ELSE [err |-> "ValueError", val |-> nan]

\* scores[i] = s, as a Python list takes it
StoreAt(scores, i, s) ==
    LET len == Len0(scores)
        pos == IF i < 0 THEN i + len ELSE i
    IN  IF pos \in Range(len)
        THEN [err |-> "none", val |-> [j \in Range(len) |-> IF j = pos THEN s ELSE scores[j]]]
        ELSE [err |-> "IndexError", val |-> scores]

\* the loop over aggregation_dict.items(), from the item at pos on; computed
\* lists the levels for which silhouette_score was called
RECURSIVE SilhouetteLoop(_, _, _, _, _)
SilhouetteLoop(regions_list, distanceMatrix, aggregation_dict, pos, st) ==
    IF pos > Len(aggregation_dict) \/ st.err # "none" THEN st
    ELSE LET k == aggregation_dict[pos].key
             labels == AssignLabels(st.labels, regions_list, aggregation_dict[pos].val, 1, 0)
             s == silhouette_score(distanceMatrix, labels)
             stored == StoreAt(st.scores, k - 2, s.val)
         IN  SilhouetteLoop(regions_list, distanceMatrix, aggregation_dict, pos + 1,
                IF skipLevel(k, Len0(regions_list)) THEN st
                ELSE IF s.err # "none"
                     THEN [st EXCEPT !.labels = labels, !.err = s.err]
                     ELSE [scores |-> stored.val, labels |-> labels,
                           computed |-> Append(st.computed, k), err |-> stored.err])

computeSilhouetteCoefficient(regions_list, distanceMatrix, aggregation_dict) ==
    LET n_regions == Len0(regions_list)
    IN  SilhouetteLoop(regions_list, distanceMatrix, aggregation_dict, 1,
            [scores |-> [i \in Range(n_regions - 2) |-> Num(0)],
             labels |-> [i \in Range(n_regions) |-> 0],
             computed |-> <<>>, err |-> "none"])

\* ------------------------------------------------------------------------
\* computeModularity.  The call writes the caller's matrix (np.fill_diagonal
\* works in place): the operator gives the matrix after the call and the
\* value returned.
\* ------------------------------------------------------------------------
\* np.sum of a vector or of a whole matrix
SumVec(vec) == SumOver(vec, DOMAIN vec)

SumAll(m) == SumOver([i \in DOMAIN m |-> SumVec(m[i])], DOMAIN m)

\* STEP 2: the term of the pair v < w
PairTerm(adj, edge_weights_sum, labels, v, w) ==
    LET d_v == SumVec(adj[v])
        d_w == SumVec(adj[w])
        delta == IF labels[v] = labels[w] THEN Num(1) ELSE Num(0)
    IN  Mul(Sub(adj[v][w], Div(Mul(d_v, d_w), Mul(Num(2), edge_weights_sum))), delta)

\* the pairs v < w in the order of the two loops, as a sequence
RECURSIVE PairSeq(_, _, _)
PairSeq(n, v, w) ==
    IF v >= n THEN <<>>
    ELSE IF w >= n THEN PairSeq(n, v + 1, v + 2)
    ELSE <<(<<v, w>>)>> \o PairSeq(n, v, w + 1)

RECURSIVE Accumulate(_, _, _, _, _)
Accumulate(modularity, adj, edge_weights_sum, labels, pairs) ==
    IF pairs = <<>> THEN modularity
    ELSE Accumulate(
            Add(modularity, PairTerm(adj, edge_weights_sum, labels, Head(pairs)[1], Head(pairs)[2])),
            adj, edge_weights_sum, labels, Tail(pairs))

\* computeModularity without its last step, the division by 2 * edge_weights_sum
computeModularity_NoFinalDivision(adjacency, regions_label_list) ==
    LET adj == fill_diagonal(adjacency, Num(0))
        edge_weights_sum == SumAll(adj)
    IN  [adjacency |-> adj,
         modularity |-> Accumulate(Num(0), adj, edge_weights_sum, regions_label_list,
                                   PairSeq(Len0(regions_label_list), 0, 1))]

computeModularity(adjacency, regions_label_list) ==
    LET adj == fill_diagonal(adjacency, Num(0))
        n_regions == Len0(regions_label_list)
        edge_weights_sum == SumAll(adj)
        modularity == Accumulate(Num(0), adj, edge_weights_sum, regions_label_list,
                                 PairSeq(n_regions, 0, 1))
    IN  [adjacency |-> adj,
         modularity |-> Div(modularity, Mul(Num(2), edge_weights_sum))]

\* ------------------------------------------------------------------------
\* The datasets of the model.  A dataset is described by its number of
\* regions, its component names, the kinds of variable it holds (one
\* variable per kind), the raw values that are not 0 (cells), the component
\* slices whose other entries are missing (holes: nan instead of 0) and
\* whether the labels of space_2 come in reverse order.
\* ------------------------------------------------------------------------
Kinds == {"ts", "1d", "2d"}

VarName(kind) ==
    IF kind = "ts" THEN "operationFixRate"
    ELSE IF kind = "1d" THEN "1d_capacity" ELSE "2d_distance"

VarDims(kind) == IF kind = "ts" THEN DimsTs ELSE IF kind = "1d" THEN Dims1d ELSE Dims2d

ComponentLists ==
    {<<"wind">>, <<"Pipeline_gas">>, <<"wind", "pv">>, <<"wind", "Pipeline_gas">>,
     <<"H2 PIPELINES", "pv">>, <<"wind", "pv", "Pipeline_gas">>}

CellsOf(kind, n, nc) ==
    IF kind = "ts" THEN {<<kind, c, i, t>> : c \in Range(nc), i \in Range(n), t \in Range(TimeSteps)}
    ELSE IF kind = "1d" THEN {<<kind, c, i, 0>> : c \in Range(nc), i \in Range(n)}
    ELSE {q \in {<<kind, c, i, j>> : c \in Range(nc), i \in Range(n), j \in Range(n)} : q[3] < q[4]}

RECURSIVE SubsetsUpTo(_, _)
SubsetsUpTo(S, k) ==
    IF k = 0 THEN {{}}
    ELSE LET P == SubsetsUpTo(S, k - 1)
         IN  P \cup {T \cup {a} : T \in P, a \in S}

SparseValues(cells, k) == UNION {[T -> 1 .. MaxVal] : T \in SubsetsUpTo(cells, k)}

RawValue(cells, holes, kind, c, i, j) ==
    IF <<kind, c, i, j>> \in DOMAIN cells THEN Num(cells[<<kind, c, i, j>>])
    ELSE IF <<kind, c>> \in holes THEN nan ELSE Num(0)

\* the labels of the regions, in the order of the dataset
Labels(n) == [i \in Range(n) |-> i]

Reversed(n) == [i \in Range(n) |-> n - 1 - i]

\* the value of a pairwise variable between the regions labelled a and b
Relation(cells, holes, c, a, b) ==
    IF a = b THEN RawValue(cells, holes, "2d", c, a, a)
    ELSE IF a < b THEN RawValue(cells, holes, "2d", c, a, b)
    ELSE RawValue(cells, holes, "2d", c, b, a)

MakeVar(kind, n, nc, cells, holes, space_2) ==
    [name |-> VarName(kind), dims |-> VarDims(kind),
     space |-> Labels(n), space_2 |-> space_2,
     values |->
        [c \in Range(nc) |->
            [i \in Range(n) |->
                IF kind = "ts" THEN [t \in Range(TimeSteps) |-> RawValue(cells, holes, kind, c, i, t)]
                ELSE IF kind = "1d" THEN [t \in Range(1) |-> RawValue(cells, holes, kind, c, i, 0)]
                ELSE [k \in DOMAIN space_2 |-> Relation(cells, holes, c, i, space_2[k])]]]]

RECURSIVE VarsOf(_, _, _, _, _, _)
VarsOf(kindSeq, n, nc, cells, holes, space_2) ==
    IF kindSeq = <<>> THEN <<>>
    ELSE <<MakeVar(Head(kindSeq), n, nc, cells, holes, space_2)>>
            \o VarsOf(Tail(kindSeq), n, nc, cells, holes, space_2)

KindSeq(kinds) == SelectSeq(<<"ts", "1d", "2d">>, LAMBDA k : k \in kinds)

MakeDataset(n, component_list, kinds, cells, holes, space_2) ==
    [n_regions |-> n, component_list |-> component_list,
     data_vars |-> VarsOf(KindSeq(kinds), n, Len(component_list), cells, holes, space_2)]

\* sds is one of the datasets with these numbers of regions, component
\* lists and kinds of variable, at most k raw values that are not 0, at most
\* one slice with missing entries (of a kind in holeKinds), and space_2 in
\* reverse order when rev
IsDataset(ds, ns, lists, kindSets, k, holeKinds, orders) ==
    \E n \in ns, cl \in lists, kinds \in kindSets, rev \in orders :
        \E cells \in SparseValues(UNION {CellsOf(kd, n, Len(cl)) : kd \in kinds}, k),
           holes \in SubsetsUpTo((kinds \cap holeKinds) \X Range(Len(cl)), 1) :
            ds = MakeDataset(n, cl, kinds, cells, holes,
                             IF rev THEN Reversed(n) ELSE Labels(n))

\* the pairwise variable da stored with its axes in the order (component,
\* space_2, space): the matrix of every component transposed
SwappedAxes(da) ==
    [da EXCEPT !.dims = <<"component", "space_2", "space">>,
               !.values = [c \in DOMAIN da.values |->
                            [k \in DOMAIN da.space_2 |->
                                [i \in DOMAIN da.space |-> da.values[c][i][k]]]]]

\* sds is one of the datasets with one pairwise variable stored so, at most
\* MaxCells raw values of which are not 0
IsSwappedDataset(ds, ns, lists) ==
    \E n \in ns, cl \in lists :
        \E cells \in SparseValues(CellsOf("2d", n, Len(cl)), MaxCells) :
            ds = [n_regions |-> n, component_list |-> cl,
                  data_vars |-> <<SwappedAxes(MakeVar("2d", n, Len(cl), cells, {}, Labels(n)))>>]

\* a pairwise variable with a value in every cell: dg on the diagonal, fill
\* off the diagonal, but for the cells with values of their own
DenseVar(n, nc, fill, dg, cells) ==
    [name |-> VarName("2d"), dims |-> VarDims("2d"),
     space |-> Labels(n), space_2 |-> Labels(n),
     values |->
        [c \in Range(nc) |->
            [i \in Range(n) |->
                [j \in Range(n) |->
                    IF i = j THEN Num(dg)
                    ELSE LET q == IF i < j THEN <<"2d", c, i, j>> ELSE <<"2d", c, j, i>>
                         IN  IF q \in DOMAIN cells THEN Num(cells[q]) ELSE Num(fill)]]]]

\* sds is one of the datasets with one such variable, at most one cell of
\* which has a value of its own
IsDenseDataset(ds, ns, lists) ==
    \E n \in ns, cl \in lists, fill \in 1 .. MaxVal, dg \in 0 .. MaxVal :
        \E cells \in SparseValues(CellsOf("2d", n, Len(cl)), 1) :
            ds = [n_regions |-> n, component_list |-> cl,
                  data_vars |-> <<DenseVar(n, Len(cl), fill, dg, cells)>>]

\* ------------------------------------------------------------------------
\* The state: the dataset, what preprocessDataset returned for it, the
\* caller's adjacency matrix, and the last call with what it returned.
\* ------------------------------------------------------------------------
VARIABLES sds, pre, adjacency, ret

vars == <<sds, pre, adjacency, ret>>

NotYet == [err |-> "unset", mode |-> "none", vw |-> None, ts |-> <<>>, d1 |-> <<>>, d2 |-> <<>>]

NoCall ==
    [op |-> "none", x |-> 0, y |-> 0, vw |-> None, pw |-> None, labels |-> <<>>,
     err |-> "none", val |-> nan]

NoMatrix == [set |-> FALSE, val |-> <<>>]

VarNames(ds) == {ds.data_vars[i].name : i \in DOMAIN ds.data_vars}

\* the weight mappings a caller may pass: None, the empty dict, a dict on
\* all the names (one of them weighted apart), a dict that misses one name
VarWeightings(names) ==
    {None, Given(<<>>)}
    \cup {Given([name \in names |-> IF name = hot THEN w ELSE 1]) :
            hot \in names, w \in 1 .. MaxWeight}
    \cup {Given([name \in names \ {miss} |-> 1]) : miss \in names}

PartWeightings == {None, Given(<<>>), Given(<<1, 0, MaxWeight>>)}

\* the arguments of the calls of selfDistance: every pair of regions with
\* the default weights, the first pair of regions with every weighting
DistanceArgs(n, names) ==
    (Range(n) \X Range(n) \X {None} \X {None})
    \cup ({0} \X {IF n > 1 THEN 1 ELSE 0} \X VarWeightings(names) \X {None})
    \cup ({0} \X {IF n > 1 THEN 1 ELSE 0} \X {None} \X PartWeightings)

\* three regions with one scalar variable of one component: 0, 5 and 10
ScalarExample ==
    MakeDataset(3, <<"wind">>, {"1d"}, (<<"1d", 0, 1, 0>> :> 5) @@ (<<"1d", 0, 2, 0>> :> 10),
                {}, Labels(3))

Init ==
    /\ \/ IsDataset(sds, 1 .. MaxRegions, {<<"wind">>}, {{"2d"}}, MaxCells, {}, {FALSE})
       \/ IsDataset(sds, 1 .. MaxRegions, {<<"wind">>}, {{"2d"}}, 1, {"2d"}, BOOLEAN)
       \/ IsDataset(sds, 1 .. MaxRegions, {<<"wind">>}, {{"1d"}}, MaxCells, {}, {FALSE})
       \/ IsDataset(sds, 1 .. MaxRegions, {<<"wind">>}, {{"ts"}}, 1, Kinds, {FALSE})
       \/ IsDataset(sds, 1 .. MaxRegions - 1, {<<"wind">>}, {Kinds}, 1, Kinds, {FALSE})
       \/ IsDataset(sds, 1 .. MaxRegions - 1, {<<"wind">>}, {{"ts", "1d"}}, 1, {}, {FALSE})
       \/ sds = ScalarExample
    /\ pre = NotYet
    /\ adjacency = NoMatrix
    /\ ret = NoCall

PreprocessDataset(handle_mode, var_weightings) ==
    /\ ret.op = "none"
    /\ handle_mode = "toDissimilarity" => var_weightings = None
    /\ pre' = LET r == preprocessDataset(sds, handle_mode, var_weightings)
               IN  [err |-> r.err, mode |-> r.mode, vw |-> var_weightings,
                    ts |-> r.ts, d1 |-> r.d1, d2 |-> r.d2]
    /\ UNCHANGED <<sds, adjacency, ret>>

SelfDistance(x, y, var_weightings, part_weightings) ==
    /\ ret.op = "none"
    /\ pre.err = "none" /\ pre.mode = "toDissimilarity"
    /\ ret' = LET r == selfDistance(pre.ts, pre.d1, pre.d2, sds.n_regions, x, y,
                                     var_weightings, part_weightings)
               IN  [op |-> "selfDistance", x |-> x, y |-> y, vw |-> var_weightings,
                    pw |-> part_weightings, labels |-> <<>>, err |-> r.err, val |-> r.val]
    /\ UNCHANGED <<sds, pre, adjacency>>

SelfDistanceMatrix(var_weightings) ==
    /\ ret.op = "none"
    /\ pre.err = "none" /\ pre.mode = "toDissimilarity"
    /\ ret' = LET r == selfDistanceMatrix(pre.ts, pre.d1, pre.d2, sds.n_regions, var_weightings)
               IN  [op |-> "selfDistanceMatrix", x |-> 0, y |-> 0, vw |-> var_weightings,
                    pw |-> None, labels |-> <<>>, err |-> r.err, val |-> r.val]
    /\ UNCHANGED <<sds, pre, adjacency>>

\* the caller is done with the value returned and may call again
Return ==
    /\ ret.op # "none"
    /\ ret' = NoCall
    /\ UNCHANGED <<sds, pre, adjacency>>

Next ==
    \/ \E m \in {"toDissimilarity", "toAffinity"}, vw \in VarWeightings(VarNames(sds)) :
          PreprocessDataset(m, vw)
    \/ \E a \in DistanceArgs(sds.n_regions, VarNames(sds)) :
          SelfDistance(a[1], a[2], a[3], a[4])
    \/ \E vw \in VarWeightings(VarNames(sds)) : SelfDistanceMatrix(vw)
    \/ Return

Spec == Init /\ [][Next]_vars

\* ------------------------------------------------------------------------
\* The connectivity matrix of a dataset
\* ------------------------------------------------------------------------
GenerateConnectivityMatrix ==
    /\ adjacency' = [set |-> TRUE, val |-> generateConnectivityMatrix(sds)]
    /\ UNCHANGED <<sds, pre, ret>>

InitConn ==
    /\ \/ IsDataset(sds, 1 .. MaxRegions, {cl \in ComponentLists : Len(cl) = 1},
                    {{"2d"}}, MaxCells, {}, {FALSE})
       \/ IsDataset(sds, 1 .. MaxRegions, {cl \in ComponentLists : Len(cl) = 1},
                    {{"2d"}}, 1, {"2d"}, BOOLEAN)
       \/ IsDataset(sds, 1 .. MaxRegions,
                    {cl \in ComponentLists : 1 < Len(cl) /\ Len(cl) <= MaxComponents},
                    {{"2d"}, {"1d", "2d"}}, 1, {"2d"}, {FALSE})
       \/ IsDataset(sds, 1 .. MaxRegions, {cl \in ComponentLists : Len(cl) = 1},
                    {{"1d"}}, 1, {}, {FALSE})
       \/ IsDenseDataset(sds, 1 .. MaxRegions, {cl \in ComponentLists : Len(cl) = 1})
       \/ IsSwappedDataset(sds, 1 .. MaxRegions, {cl \in ComponentLists : Len(cl) = 1})
    /\ pre = NotYet
    /\ adjacency = NoMatrix
    /\ ret = NoCall

NextConn == GenerateConnectivityMatrix

SpecConn == InitConn /\ [][NextConn]_vars

\* ------------------------------------------------------------------------
\* The modularity of a partition.  The caller holds an adjacency matrix: a
\* symmetric matrix of edge weights with 0 or 1 on its diagonal.
\* ------------------------------------------------------------------------
EdgesOf(n) == {q \in Range(n) \X Range(n) : q[1] < q[2]}

\* the symmetric matrix of the weights w (a function on some edges), with
\* dg on the diagonal
WeightedMatrix(n, w, dg) ==
    [i \in Range(n) |->
        [j \in Range(n) |->
            IF i = j THEN Num(dg)
            ELSE IF <<i, j>> \in DOMAIN w THEN Num(w[<<i, j>>])
            ELSE IF <<j, i>> \in DOMAIN w THEN Num(w[<<j, i>>])
            ELSE Num(0)]]

\* at most k edges with weights of their own, or every edge with one weight
EdgeWeights(n, k) ==
    UNION {[T -> 1 .. MaxWeight] : T \in SubsetsUpTo(EdgesOf(n), k)}
    \cup {[e \in EdgesOf(n) |-> w] : w \in 1 .. MaxWeight}

\* the label lists of n regions, one for every partition: the first region
\* has label 0, a new group takes the next label
RECURSIVE LabelLists(_)
LabelLists(n) ==
    IF n = 0 THEN {<<>>}
    ELSE UNION {
            {[i \in Range(n) |-> IF i < n - 1 THEN l[i] ELSE v] :
                v \in 0 .. Cardinality({l[i] : i \in DOMAIN l})}
            : l \in LabelLists(n - 1)}

ComputeModularity(regions_label_list) ==
    /\ ret.op = "none"
    /\ adjacency.set
    /\ LET r == computeModularity(adjacency.val, regions_label_list)
       IN  /\ adjacency' = [set |-> TRUE, val |-> r.adjacency]
           /\ ret' = [op |-> "computeModularity", x |-> 0, y |-> 0, vw |-> None,
                      pw |-> None, labels |-> regions_label_list,
                      err |-> "none", val |-> r.modularity]
    /\ UNCHANGED <<sds, pre>>

InitMod ==
    /\ \E n \in 1 .. MaxNodes, dg \in {0, 1} :
        \E w \in EdgeWeights(n, MaxEdges) :
            /\ sds = [n_regions |-> n, component_list |-> <<"wind">>, data_vars |-> <<>>]
            /\ adjacency = [set |-> TRUE, val |-> WeightedMatrix(n, w, dg)]
    /\ pre = NotYet
    /\ ret = NoCall

NextMod ==
    \/ \E l \in LabelLists(sds.n_regions) : ComputeModularity(l)
    \/ Return

SpecMod == InitMod /\ [][NextMod]_vars

\* ------------------------------------------------------------------------
\* The silhouette scores of a hierarchy.  A hierarchy is what an
\* agglomerative clustering leaves: a level k holds k groups that partition
\* the regions, and of two levels one refines the other.
\* ------------------------------------------------------------------------
\* the groups of a label list, as a dict group -> list of regions
GroupsOf(l, k) ==
    [g \in 1 .. k |-> [key |-> g, val |-> Ascending({i \in DOMAIN l : l[i] = g - 1})]]

ReverseSeq(q) == [i \in 1 .. Len(q) |-> q[Len(q) + 1 - i]]

\* the levels of k groups of n regions
LevelsAt(n, k, rev) ==
    {[key |-> k, val |-> IF rev THEN ReverseSeq(GroupsOf(l, k)) ELSE GroupsOf(l, k)] :
        l \in {m \in LabelLists(n) : Cardinality({m[i] : i \in DOMAIN m}) = k}}

GroupSets(level) == {{level.val[g].val[r] : r \in DOMAIN level.val[g].val} : g \in DOMAIN level.val}

\* every group of the level a lies in a group of the level b
Refines(a, b) == \A x \in GroupSets(a) : \E y \in GroupSets(b) : x \subseteq y

Nested(a, b) == IF a.key > b.key THEN Refines(a, b) ELSE Refines(b, a)

\* the level lv may join the hierarchy h
Fits(h, lv) == \A i \in DOMAIN h : h[i].key # lv.key /\ Nested(h[i], lv)

\* the hierarchies of at most m levels of n regions, the levels in any order
RECURSIVE Hierarchies(_, _, _)
Hierarchies(n, m, rev) ==
    IF m = 0 THEN {<<>>}
    ELSE LET shorter == Hierarchies(n, m - 1, rev)
             levels == UNION {LevelsAt(n, k, rev) : k \in 1 .. n}
         IN  shorter \cup
             UNION {{Append(h, lv) : lv \in {x \in levels : Fits(h, x)}} : h \in shorter}

ComputeSilhouetteCoefficient(aggregation_dict) ==
    /\ ret.op = "none"
    /\ LET r == computeSilhouetteCoefficient(Labels(sds.n_regions), "distanceMatrix",
                                             aggregation_dict)
       IN  ret' = [op |-> "computeSilhouetteCoefficient", x |-> 0, y |-> 0, vw |-> None,
                   pw |-> None, labels |-> r.labels, err |-> r.err, val |-> r.scores,
                   aggregation_dict |-> aggregation_dict, computed |-> r.computed]
    /\ UNCHANGED <<sds, pre, adjacency>>

InitSil ==
    /\ \E n \in 1 .. MaxRegions :
        sds = [n_regions |-> n, component_list |-> <<"wind">>, data_vars |-> <<>>]
    /\ pre = NotYet
    /\ adjacency = NoMatrix
    /\ ret = NoCall

NextSil ==
    \/ /\ ret.op = "none"
       /\ \E rev \in BOOLEAN :
            \E h \in Hierarchies(sds.n_regions, MaxLevels, rev) :
                ComputeSilhouetteCoefficient(h)
    \/ Return

SpecSil == InitSil /\ [][NextSil]_vars

\* ------------------------------------------------------------------------
\* The scaler on its own: a matrix of regions x time steps and a range
\* ------------------------------------------------------------------------
\* the matrices of n rows with one value in all cells but those with a value
\* of their own (at most k of them)
MatricesOf(n, k) ==
    {[i \in Range(n) |-> [t \in Range(TimeSteps) |->
            IF <<"ts", 0, i, t>> \in DOMAIN cells THEN Num(cells[<<"ts", 0, i, t>>]) ELSE base]] :
        cells \in SparseValues(CellsOf("ts", n, 1), k), base \in {Num(-1), Num(0), nan}}

\* the ranges lo < hi a caller may ask for; (0, 1) is the default
ScaledRanges == {q \in (-1 .. 1) \X (0 .. MaxVal) : q[1] < q[2]}

MatrixMinMaxScaler(matrix, scaled_min, scaled_max) ==
    /\ ret.op = "none"
    /\ ret' = [op |-> "matrix_MinMaxScaler", x |-> 0, y |-> 0, vw |-> None, pw |-> None,
               labels |-> <<>>, err |-> "none",
               val |-> matrix_MinMaxScaler(matrix, Num(scaled_min), Num(scaled_max)),
               matrix |-> matrix, scaled_min |-> Num(scaled_min), scaled_max |-> Num(scaled_max)]
    /\ UNCHANGED <<sds, pre, adjacency>>

InitScale ==
    /\ \E n \in 1 .. MaxNodes :
        sds = [n_regions |-> n, component_list |-> <<"wind">>, data_vars |-> <<>>]
    /\ pre = NotYet
    /\ adjacency = NoMatrix
    /\ ret = NoCall

NextScale ==
    \/ /\ ret.op = "none"
       /\ \E m \in MatricesOf(sds.n_regions, MaxEdges), q \in ScaledRanges :
            MatrixMinMaxScaler(m, q[1], q[2])
    \/ Return

SpecScale == InitScale /\ [][NextScale]_vars

\* ------------------------------------------------------------------------
\* The preprocessors of the categories on their own, on the variables of a
\* dataset with one component or more
\* ------------------------------------------------------------------------
PlainLists ==
    {cl \in ComponentLists :
        Len(cl) <= MaxComponents /\ \A i \in DOMAIN cl : ~ContainsPipeline(cl[i])}

\* the labels a caller may find on the axis space_2 of a pairwise variable
\* of n regions: those of space, in order or reversed, one label more, one
\* label less, one label replaced
Axes(n) ==
    {Labels(n), Reversed(n), Labels(n + 1), Labels(n - 1),
     [i \in Range(n) |-> IF i = n - 1 THEN n ELSE i]}

\* sds is one of the datasets with one pairwise variable with such an axis,
\* at most one raw value that is not 0, and the first slice with missing
\* entries or not
IsPairwiseDataset(ds, ns, lists) ==
    \E n \in ns, cl \in lists, holes \in {{}, {<<"2d", 0>>}} :
        \E cells \in SparseValues(CellsOf("2d", n + 1, Len(cl)), 1), space_2 \in Axes(n) :
            ds = MakeDataset(n, cl, {"2d"}, cells, holes, space_2)

Preprocess2dVariables(handle_mode) ==
    /\ ret.op = "none"
    /\ LET vars_2d == VarsDict(SelectSeq(sds.data_vars, Is2d))
           failed == {v \in DOMAIN vars_2d :
                        reorderError(vars_2d[v].val, n_components_of(sds)) # "none"}
       IN  ret' = [op |-> "preprocess2dVariables", x |-> 0, y |-> 0, vw |-> None,
                   pw |-> None, labels |-> <<>>, mode |-> handle_mode,
                   err |-> IF failed = {} THEN "none" ELSE "KeyError",
                   val |-> IF failed = {}
                           THEN preprocess2dVariables(vars_2d, n_components_of(sds), handle_mode)
                           ELSE <<>>]
    /\ UNCHANGED <<sds, pre, adjacency>>

PreprocessTimeSeries ==
    /\ ret.op = "none"
    /\ ret' = [op |-> "preprocessTimeSeries", x |-> 0, y |-> 0, vw |-> None, pw |-> None,
               labels |-> <<>>, err |-> "none",
               val |-> preprocessTimeSeries(VarsDict(SelectSeq(sds.data_vars, IsTs)),
                                            sds.n_regions, n_components_of(sds))]
    /\ UNCHANGED <<sds, pre, adjacency>>

Preprocess1dVariables ==
    /\ ret.op = "none"
    /\ LET r == preprocess1dVariables(VarsDict(SelectSeq(sds.data_vars, Is1d)),
                                      n_components_of(sds))
       IN  ret' = [op |-> "preprocess1dVariables", x |-> 0, y |-> 0, vw |-> None,
                   pw |-> None, labels |-> <<>>, err |-> r.err, val |-> r.val]
    /\ UNCHANGED <<sds, pre, adjacency>>

\* a time series variable with a value in every cell: fill, but for the
\* cells with values of their own
DenseTsVar(n, nc, fill, cells) ==
    [name |-> VarName("ts"), dims |-> VarDims("ts"),
     space |-> Labels(n), space_2 |-> Labels(n),
     values |->
        [c \in Range(nc) |->
            [i \in Range(n) |->
                [t \in Range(TimeSteps) |->
                    IF <<"ts", c, i, t>> \in DOMAIN cells THEN Num(cells[<<"ts", c, i, t>>])
                    ELSE Num(fill)]]]]

\* sds is one of the datasets with one such variable, at most one cell of
\* which has a value of its own
IsDenseTsDataset(ds, ns, lists) ==
    \E n \in ns, cl \in lists, fill \in 1 .. MaxVal :
        \E cells \in SparseValues(CellsOf("ts", n, Len(cl)), 1) :
            ds = [n_regions |-> n, component_list |-> cl,
                  data_vars |-> <<DenseTsVar(n, Len(cl), fill, cells)>>]

InitPre ==
    /\ \/ IsDataset(sds, 1 .. MaxNodes, PlainLists, {{"1d"}}, MaxEdges, {"1d"}, {FALSE})
       \/ IsDataset(sds, 1 .. MaxNodes, PlainLists, {{"ts"}}, MaxCells, {"ts"}, {FALSE})
       \/ IsPairwiseDataset(sds, 1 .. MaxNodes, PlainLists)
       \/ IsDenseDataset(sds, 1 .. MaxNodes, PlainLists)
       \/ IsDenseTsDataset(sds, 1 .. MaxNodes, PlainLists)
    /\ pre = NotYet
    /\ adjacency = NoMatrix
    /\ ret = NoCall

NextPre ==
    \/ PreprocessTimeSeries
    \/ Preprocess1dVariables
    \/ \E m \in {"toDissimilarity", "toAffinity"} : Preprocess2dVariables(m)
    \/ Return

SpecPre == InitPre /\ [][NextPre]_vars

\* ------------------------------------------------------------------------
\* The claims about the distance engine
\* ------------------------------------------------------------------------
\* the call of selfDistance that ret reports, with the two regions swapped
SwappedCall == selfDistance(pre.ts, pre.d1, pre.d2, sds.n_regions, ret.y, ret.x, ret.vw, ret.pw)

\* C1: selfDistance is symmetric in its two region arguments: the call with
\* the regions swapped ends the same way and returns the same distance.
C1_SelfDistanceSymmetric ==
    ret.op = "selfDistance" =>
        /\ SwappedCall.err = ret.err
        /\ ret.err = "none" => SwappedCall.val = ret.val

\* the matrix returned and the distance of one pair under the same weights
DistOfPair(i, j) ==
    selfDistance(pre.ts, pre.d1, pre.d2, sds.n_regions, i, j, ret.vw, None).val

\* C2: the matrix returned by selfDistanceMatrix is symmetric, has a zero
\* diagonal, and holds selfDistance(i, j) at every i < j.
C2_DistanceMatrixSymmetricHollow ==
    (ret.op = "selfDistanceMatrix" /\ ret.err = "none") =>
        /\ DOMAIN ret.val = Range(sds.n_regions)
        /\ \A i, j \in Range(sds.n_regions) :
            /\ ret.val[i][j] = ret.val[j][i]
            /\ i = j => ret.val[i][j] = Num(0)
            /\ i < j => ret.val[i][j] = DistOfPair(i, j)

\* a distance matrix of three regions or more, built from a scalar and a
\* pairwise variable, with a distance that is not 0
C2_Witness ==
    /\ ret.op = "selfDistanceMatrix" /\ ret.err = "none"
    /\ sds.n_regions >= 3
    /\ pre.d1 # <<>> /\ pre.d2 # <<>>
    /\ \E i, j \in Range(sds.n_regions) : i < j /\ ret.val[i][j] # Num(0)

\* the dataset holds one pairwise variable with one valid component and no
\* entry missing, and nothing else
OnePairwiseOnly ==
    /\ Len(sds.data_vars) = 1 /\ Is2d(sds.data_vars[1])
    /\ Len(pre.d2) = 1 /\ Len(pre.d2[1].val) = 1
    /\ \A e \in Entries(sds.data_vars[1].values[0]) : ~isnan(e)

\* the scaled region x region matrix of that variable
ScaledPairwise == ScaledComponents(sds.data_vars[1], n_components_of(sds))[1].val

\* the weight selfDistance gives the pairwise variable of the call in ret
WeightOfCall ==
    (IF Truthy(ret.vw) THEN ret.vw.map[sds.data_vars[1].name] ELSE 1)
        * (IF Truthy(ret.pw) THEN ret.pw.map[3] ELSE 1)

\* C3: the entry selfDistance reads for x < y is the one made from cell
\* (x, y) of the scaled matrix: with one pairwise variable and nothing else,
\* selfDistance(x, y) = (1 - scaled[x][y])^2 * weight.
C3_LookupMatchesConstruction ==
    (ret.op = "selfDistance" /\ ret.x < ret.y /\ OnePairwiseOnly) =>
        /\ ret.err = "none"
        /\ ret.val = Mul(Sq(Sub(Num(1), ScaledPairwise[ret.x][ret.y])), Num(WeightOfCall))

\* C4: the index x*(n - x) + (y - x) - 1 of a pair x < y lies in
\* 0 .. n*(n-1)/2 - 1 and no other pair a < b has the same index.
C4_IndexRoundTrips ==
    (ret.op = "selfDistance" /\ ret.x < ret.y) =>
        LET n == sds.n_regions
            idx == region_index_x_y(n, ret.x, ret.y)
        IN  /\ idx \in Range((n * (n - 1)) \div 2)
            /\ \A a, b \in Range(n) :
                (a < b /\ region_index_x_y(n, a, b) = idx) => (a = ret.x /\ b = ret.y)

\* the variables of the preprocessed data
PreprocessedNames == Keys(pre.ts) \cup Keys(pre.d1) \cup Keys(pre.d2)

\* C5: when the caller passes a weight mapping (any mapping, the empty one
\* too) that misses a variable of the preprocessed data, selfDistance and
\* preprocessDataset in toAffinity mode end in a KeyError.
C5_ExplicitWeightsMissingKeyFails ==
    /\ (ret.op = "selfDistance" /\ ~ret.vw.none
            /\ ~(PreprocessedNames \subseteq DOMAIN ret.vw.map))
        => ret.err = "KeyError"
    /\ (pre.mode = "toAffinity" /\ pre.err # "ValueError" /\ ~pre.vw.none
            /\ ~(VarNames(sds) \subseteq DOMAIN pre.vw.map))
        => pre.err = "KeyError"

\* ------------------------------------------------------------------------
\* The claims about the modularity
\* ------------------------------------------------------------------------
\* the total edge weight of the caller's matrix, every edge counted twice
\* (the call has zeroed its diagonal)
TwiceEdgeWeight == SumAll(adjacency.val)

\* C6: computeModularity with an adjacency matrix of total edge weight zero
\* ends in an explicit error, it returns no value.
C6_ZeroWeightIsError ==
    (ret.op = "computeModularity" /\ TwiceEdgeWeight = Num(0)) => ret.err # "none"

\* the classic modularity of a partition: the sum over all ordered pairs
\* (v, w) with equal labels of A[v][w] - k_v*k_w/(2m), divided by 2m, with m
\* the total edge weight, every edge counted once
ClassicModularity(A, labels) ==
    LET m == Div(SumAll(A), Num(2))
        k == [v \in DOMAIN A |-> SumVec(A[v])]
        term(v, w) == IF labels[v] = labels[w]
                      THEN Sub(A[v][w], Div(Mul(k[v], k[w]), Mul(Num(2), m)))
                      ELSE Num(0)
    IN  Div(SumOver([v \in DOMAIN A |-> SumOver([w \in DOMAIN A |-> term(v, w)], DOMAIN A)],
                    DOMAIN A),
            Mul(Num(2), m))

\* C7: computeModularity returns the classic weighted modularity of the
\* partition; the partition with every region in one group has modularity 0.
C7_ClassicModularity ==
    (ret.op = "computeModularity" /\ Lt(Num(0), TwiceEdgeWeight)) =>
        /\ ret.val = ClassicModularity(adjacency.val, ret.labels)
        /\ (\A i \in DOMAIN ret.labels : ret.labels[i] = ret.labels[0]) => ret.val = Num(0)

\* C8: computeModularity returns exactly 0 when all labels are pairwise
\* distinct, whatever the adjacency matrix.
C8_SingletonsGiveZero ==
    (ret.op = "computeModularity"
        /\ \A i, j \in DOMAIN ret.labels : i # j => ret.labels[i] # ret.labels[j])
    => ret.val = Num(0)

\* C9: for a symmetric adjacency matrix with entries >= 0 and a positive
\* total edge weight, the value returned q satisfies -1/2 <= q < 1.
C9_ModularityInRange ==
    (ret.op = "computeModularity" /\ Lt(Num(0), TwiceEdgeWeight)) =>
        /\ Le(Frac(-1, 2), ret.val)
        /\ Lt(ret.val, Num(1))

\* a partition of three regions or more, with two regions in one group,
\* whose modularity is negative
C9_Witness ==
    /\ ret.op = "computeModularity" /\ Lt(Num(0), TwiceEdgeWeight)
    /\ sds.n_regions >= 3
    /\ \E i, j \in DOMAIN ret.labels : i # j /\ ret.labels[i] = ret.labels[j]
    /\ Lt(ret.val, Num(0))

\* ------------------------------------------------------------------------
\* The claims about the connectivity matrix
\* ------------------------------------------------------------------------
\* the pairwise variables of the dataset in affinity form
AffinityOfDataset ==
    preprocess2dVariables(VarsDict(SelectSeq(sds.data_vars, Is2d)), n_components_of(sds), "toAffinity")

\* some pairwise variable has, for a connecting component, a value between
\* i and j that is a number other than 0
HasNonZeroAffinity(i, j) ==
    \E v \in DOMAIN AffinityOfDataset :
        \E c \in DOMAIN AffinityOfDataset[v].val :
            /\ AffinityOfDataset[v].val[c].key \in connectComponents(sds.component_list)
            /\ IsFin(AffinityOfDataset[v].val[c].val[i][j])
            /\ AffinityOfDataset[v].val[c].val[i][j] # Num(0)

\* C10: for distinct regions i, j: adjacency[i][j] = 1 if and only if some
\* pairwise variable has, for some connecting component, a non-zero affinity
\* value between i and j; otherwise adjacency[i][j] = 0.
C10_AdjacentIffNonZeroAffinity ==
    adjacency.set =>
        \A i, j \in Range(sds.n_regions) :
            i # j => adjacency.val[i][j] = (IF HasNonZeroAffinity(i, j) THEN Num(1) ELSE Num(0))

\* no component name contains 'pipeline', and the dataset holds one pairwise
\* variable of one component, with the same order of the regions on both axes
\* and a positive value in every cell off the diagonal
AllPairsPositive ==
    /\ \A i \in DOMAIN sds.component_list : ~ContainsPipeline(sds.component_list[i])
    /\ Len(sds.component_list) = 1
    /\ Len(sds.data_vars) = 1 /\ HasDims2d(sds.data_vars[1])
    /\ sds.data_vars[1].space = sds.data_vars[1].space_2
    /\ \A i, j \in Range(sds.n_regions) :
        i # j => Lt(Num(0), sds.data_vars[1].values[0][i][j])

\* C11: for such a dataset generateConnectivityMatrix returns the fully
\* connected matrix: every entry, on and off the diagonal, is 1.
C11_AllPositiveFullyConnected ==
    (adjacency.set /\ AllPairsPositive) =>
        \A i, j \in Range(sds.n_regions) : adjacency.val[i][j] = Num(1)
\* C12: the matrix returned by generateConnectivityMatrix is n_regions x
\* n_regions and symmetric, with 0 or 1 in every cell off the diagonal and 1
\* in every cell of the diagonal.
C12_AdjacencyWellFormed ==
    adjacency.set =>
        /\ DOMAIN adjacency.val = Range(sds.n_regions)
        /\ \A i \in Range(sds.n_regions) :
            /\ DOMAIN adjacency.val[i] = Range(sds.n_regions)
            /\ adjacency.val[i][i] = Num(1)
            /\ \A j \in Range(sds.n_regions) :
                /\ adjacency.val[i][j] = adjacency.val[j][i]
                /\ adjacency.val[i][j] \in {Num(0), Num(1)}

\* a matrix of three regions or more with a pair of regions that is
\* connected and a pair that is not
C12_Witness ==
    /\ adjacency.set /\ sds.n_regions >= 3
    /\ \E i, j \in Range(sds.n_regions) : i # j /\ adjacency.val[i][j] = Num(1)
    /\ \E i, j \in Range(sds.n_regions) : i # j /\ adjacency.val[i][j] = Num(0)

\* ------------------------------------------------------------------------
\* The claims about the silhouette scores
\* ------------------------------------------------------------------------
\* C13: computeSilhouetteCoefficient returns a list of n_regions - 2 scores
\* (n_regions >= 2), and for the levels 1 and n_regions no score is computed
\* or stored, wherever they stand in the hierarchy.
C13_EndLevelsSkipped ==
    ret.op = "computeSilhouetteCoefficient" =>
        /\ ret.err = "none"
        /\ sds.n_regions >= 2 => DOMAIN ret.val = Range(sds.n_regions - 2)
        /\ \A i \in DOMAIN ret.computed : ret.computed[i] \notin {1, sds.n_regions}
        /\ (\A i \in DOMAIN ret.aggregation_dict :
                ret.aggregation_dict[i].key \in {1, sds.n_regions})
            => \A j \in DOMAIN ret.val : ret.val[j] = Num(0)

\* a hierarchy of three regions or more whose first level is the level
\* n_regions, followed by a level for which a score is computed
C13_Witness ==
    /\ ret.op = "computeSilhouetteCoefficient" /\ ret.err = "none"
    /\ sds.n_regions >= 3
    /\ Len(ret.aggregation_dict) = 2
    /\ ret.aggregation_dict[1].key = sds.n_regions
    /\ ret.computed = <<ret.aggregation_dict[2].key>>

\* the label of every region at a level: the place of its group in the
\* order of the groups, counted from 0
LabelsAtLevel(level) ==
    [i \in Range(sds.n_regions) |->
        (CHOOSE g \in DOMAIN level.val :
            \E r \in DOMAIN level.val[g].val : level.val[g].val[r] = i) - 1]

\* C14: for every level k in 2 .. n_regions - 1 of the hierarchy the score at
\* index k - 2 is computed from the labels of the groups of level k, whatever
\* levels came before it; the index of every level that is absent holds 0.
C14_ScoresFromOwnLevel ==
    ret.op = "computeSilhouetteCoefficient" =>
        /\ ret.err = "none"
        /\ \A idx \in DOMAIN ret.val :
            LET at == {p \in DOMAIN ret.aggregation_dict : ret.aggregation_dict[p].key = idx + 2}
            IN  IF at = {} THEN ret.val[idx] = Num(0)
                ELSE \A p \in at :
                        ret.val[idx] = [X |-> "distanceMatrix",
                                        labels |-> LabelsAtLevel(ret.aggregation_dict[p])]

\* two levels of a hierarchy, the finer one first, with a score for each
C14_Witness ==
    /\ ret.op = "computeSilhouetteCoefficient" /\ ret.err = "none"
    /\ Len(ret.computed) = 2
    /\ ret.computed[1] > ret.computed[2]
    /\ ret.val[ret.computed[1] - 2] # ret.val[ret.computed[2] - 2]

\* ------------------------------------------------------------------------
\* The claims about the preprocessors
\* ------------------------------------------------------------------------
\* C15: matrix_MinMaxScaler of a matrix with max > min returns a matrix whose
\* smallest value is the lower end of the range and whose largest value is
\* the upper end (0 and 1 by default); of a matrix with max = min it returns
\* the matrix itself.
C15_ScalerHitsRange ==
    ret.op = "matrix_MinMaxScaler" =>
        /\ Lt(npMin(ret.matrix), npMax(ret.matrix)) =>
            /\ npMin(ret.val) = ret.scaled_min
            /\ npMax(ret.val) = ret.scaled_max
        /\ Eq(npMin(ret.matrix), npMax(ret.matrix)) =>
            /\ ret.err = "none"
            /\ ret.val = ret.matrix

\* a matrix of two rows or more with three values, scaled to a range other
\* than the default
C15_Witness ==
    /\ ret.op = "matrix_MinMaxScaler"
    /\ sds.n_regions >= 2
    /\ Lt(npMin(ret.matrix), npMax(ret.matrix))
    /\ Cardinality(Entries(ret.matrix)) >= 3
    /\ <<ret.scaled_min, ret.scaled_max>> # <<Num(0), Num(1)>>
    /\ \E e \in Entries(ret.val) : Lt(ret.scaled_min, e) /\ Lt(e, ret.scaled_max)

\* the valid components of a variable of the dataset
ValidIdsOf(da) == validComponentIds(da.values, n_components_of(sds))

\* C16: for every scalar variable preprocess1dVariables returns the matrix
\* region x valid component (components ascending) scaled as a whole, with
\* its one minimum and its one maximum, as matrix_MinMaxScaler scales it.
C16_ScalarsScaledJointly ==
    (ret.op = "preprocess1dVariables"
        /\ \A i \in DOMAIN sds.data_vars : ValidIdsOf(sds.data_vars[i]) # <<>>)
    => /\ ret.err = "none"
       /\ \A v \in DOMAIN ret.val :
            ret.val[v].val =
                matrix_MinMaxScaler(
                    ValidColumns(sds.data_vars[v].values, ValidIdsOf(sds.data_vars[v])),
                    Num(0), Num(1))

\* the weight of a variable and of a category in the call that ret reports
VarWeightOfCall(name) == IF Truthy(ret.vw) THEN ret.vw.map[name] ELSE 1

PartWeightOfCall(p) == IF Truthy(ret.pw) THEN ret.pw.map[p] ELSE 1

\* the sum over the variables of a category of weight times the sum of the
\* squared differences of the rows of the regions x and y
WeightedSquares(dict, x, y) ==
    SumOver([v \in DOMAIN dict |->
                Mul(Num(VarWeightOfCall(dict[v].key)),
                    SumOver([j \in DOMAIN dict[v].val[x] |->
                                Mul(Sub(dict[v].val[x][j], dict[v].val[y][j]),
                                    Sub(dict[v].val[x][j], dict[v].val[y][j]))],
                            DOMAIN dict[v].val[x]))],
            DOMAIN dict)

\* C17: with no pairwise variable selfDistance(x, y) is the weighted sum of
\* squared differences of the time series rows times its part weight plus
\* the one of the scalar rows times its part weight; for three regions with
\* one scalar variable 0, 5, 10 selfDistanceMatrix gives 1/4, 1 and 1/4.
C17_DistanceWithoutPairwise ==
    /\ (ret.op = "selfDistance" /\ ret.err = "none" /\ pre.d2 = <<>>) =>
        ret.val = Add(Mul(WeightedSquares(pre.ts, ret.x, ret.y), Num(PartWeightOfCall(1))),
                      Mul(WeightedSquares(pre.d1, ret.x, ret.y), Num(PartWeightOfCall(2))))
    /\ (ret.op = "selfDistanceMatrix" /\ sds = ScalarExample /\ ~Truthy(ret.vw)) =>
        /\ ret.err = "none"
        /\ ret.val[0][1] = Frac(1, 4)
        /\ ret.val[0][2] = Num(1)
        /\ ret.val[1][2] = Frac(1, 4)

\* a distance that is not 0 of a dataset with a time series and a scalar
\* variable, with weights of the caller for the variables
C17_Witness ==
    /\ ret.op = "selfDistance" /\ ret.err = "none"
    /\ pre.d2 = <<>> /\ pre.ts # <<>> /\ pre.d1 # <<>>
    /\ Truthy(ret.vw)
    /\ Lt(Num(1), ret.val)

\* the components of a variable with a value for some region (and time
\* step), ascending
PresentComponents(da) ==
    Ascending({c \in DOMAIN da.values : \E e \in Entries(da.values[c]) : ~isnan(e)})

\* the matrix m has the rows of the regions and one block of width columns
\* for every component of the variable that is present, the blocks in the
\* ascending order of the components
BlocksOfPresent(m, da, width) ==
    /\ DOMAIN m = Range(sds.n_regions)
    /\ \A i \in DOMAIN m : DOMAIN m[i] = Range(Len(PresentComponents(da)) * width)
    /\ \A b \in DOMAIN PresentComponents(da) :
        LET block == [i \in DOMAIN m |-> [j \in Range(width) |-> m[i][(b - 1) * width + j]]]
            raw == da.values[PresentComponents(da)[b]]
        IN  \/ block = matrix_MinMaxScaler(raw, Num(0), Num(1))
            \/ block = MinMaxScaler_fit_transform(raw)

\* C18: in the matrix of a variable that preprocessTimeSeries and
\* preprocess1dVariables return, a component with no value at all has no
\* column: the matrix has n_regions rows and one block of columns for every
\* valid component, in ascending order, and no column when no component is
\* valid.
C18_MissingComponentsDropped ==
    /\ ret.op = "preprocessTimeSeries" =>
        /\ ret.err = "none"
        /\ \A v \in DOMAIN ret.val :
            BlocksOfPresent(ret.val[v].val, sds.data_vars[v], TimeSteps)
    /\ ret.op = "preprocess1dVariables" =>
        /\ ret.err = "none"
        /\ \A v \in DOMAIN ret.val : BlocksOfPresent(ret.val[v].val, sds.data_vars[v], 1)

\* the two region axes of a pairwise variable differ in their number of
\* labels or in their set of labels
AxesDisagree(da) ==
    \/ Len0(da.space) # Len0(da.space_2)
    \/ {da.space[i] : i \in DOMAIN da.space} # {da.space_2[i] : i \in DOMAIN da.space_2}

\* C19: preprocess2dVariables ends in an error, and returns nothing, when
\* the axes space and space_2 of a pairwise variable disagree in the number
\* or in the set of their labels.
C19_MismatchedAxesRejected ==
    (ret.op = "preprocess2dVariables"
        /\ \E v \in DOMAIN sds.data_vars :
            Is2d(sds.data_vars[v]) /\ AxesDisagree(sds.data_vars[v]))
    => (ret.err # "none" /\ ret.val = <<>>)

\* C20: a call of computeModularity leaves the caller's adjacency matrix as
\* it was: every entry, the 1 on the diagonal of a connectivity matrix too,
\* is the same after the call.
C20_ModularityLeavesMatrix ==
    [][ret'.op = "computeModularity" => adjacency' = adjacency]_vars

\* the values of a preprocessed block that are not missing
Present(m) == {e \in Entries(m) : ~isnan(e)}

InUnitRange(e) == Le(Num(0), e) /\ Le(e, Num(1))

\* C21: every value that preprocessTimeSeries and preprocess2dVariables
\* produce lies in [0,1]: the blocks of the valid components of a time
\* series, the affinity matrices in toAffinity mode, and the condensed
\* vectors of 1 - scaled value in toDissimilarity mode, for slices with all
\* values equal too.  (A missing value is not counted as a value.)
C21_PreprocessedInUnitRange ==
    /\ (ret.op = "preprocessTimeSeries" /\ ret.err = "none") =>
        \A v \in DOMAIN ret.val : \A e \in Present(ret.val[v].val) : InUnitRange(e)
    /\ (ret.op = "preprocess2dVariables" /\ ret.err = "none") =>
        \A v \in DOMAIN ret.val : \A c \in DOMAIN ret.val[v].val :
            IF ret.mode = "toAffinity"
            THEN \A e \in Present(ret.val[v].val[c].val) : InUnitRange(e)
            ELSE \A k \in DOMAIN ret.val[v].val[c].val :
                    isnan(ret.val[v].val[c].val[k]) \/ InUnitRange(ret.val[v].val[c].val[k])

\* every entry of the block out that comes from an entry of the block in
\* that is not missing is not missing
KeepsPresent(in, out) ==
    \A i \in DOMAIN in : \A j \in DOMAIN in[i] : ~isnan(in[i][j]) => ~isnan(out[i][j])

\* the block of the b-th valid component in the matrix of a time series
ColumnBlock(m, b) ==
    [i \in DOMAIN m |-> [t \in Range(TimeSteps) |-> m[i][(b - 1) * TimeSteps + t]]]

\* the matrix of a component of a pairwise variable, its columns in the
\* order of space
Reordered(da, c) == ReorderColumns(da.values[c], da.space, da.space_2)

\* C22: a valid component with some missing entries is scaled from its
\* values that are not missing: in what preprocessTimeSeries and
\* preprocess2dVariables return, every entry of an input block that is not
\* missing gives an output entry that is not missing.
C22_MissingEntriesStayLocal ==
    /\ (ret.op = "preprocessTimeSeries" /\ ret.err = "none") =>
        \A v \in DOMAIN ret.val :
            LET da == sds.data_vars[v]
                ids == ValidIdsOf(da)
            IN  \A b \in DOMAIN ids :
                    KeepsPresent(da.values[ids[b]], ColumnBlock(ret.val[v].val, b))
    /\ (ret.op = "preprocess2dVariables" /\ ret.err = "none") =>
        \A v \in DOMAIN ret.val : \A c \in DOMAIN ret.val[v].val :
            LET in == Reordered(sds.data_vars[v], ret.val[v].val[c].key)
                out == ret.val[v].val[c].val
            IN  IF ret.mode = "toAffinity" THEN KeepsPresent(in, out)
                ELSE \A k \in DOMAIN out : ~isnan(squareform(in)[k]) => ~isnan(out[k])

\* the call in ret is one of a region with itself on well-formed input:
\* every variable has a weight, and no feature of the time series and the
\* scalar variables is missing
SelfPairCall ==
    /\ ret.op = "selfDistance" /\ ret.x = ret.y
    /\ Truthy(ret.vw) => PreprocessedNames \subseteq DOMAIN ret.vw.map
    /\ \A v \in DOMAIN pre.ts : \A e \in Entries(pre.ts[v].val) : ~isnan(e)
    /\ \A v \in DOMAIN pre.d1 : \A e \in Entries(pre.d1[v].val) : ~isnan(e)

\* the call in ret reads an entry of a condensed vector
ReadsCondensedEntry ==
    \E v \in DOMAIN pre.d2 : \E c \in DOMAIN pre.d2[v].val :
        InIndexRange(pre.d2[v].val[c].val,
                     region_index_x_y(sds.n_regions, ret.x, ret.y))

\* C23: selfDistance of a region to itself is 0, with pairwise variables in
\* the preprocessed data too: the call ends without an error, returns 0, and
\* reads no entry of a condensed vector (every entry of which belongs to a
\* pair of two different regions).
C23_SelfPairDistanceZero ==
    SelfPairCall =>
        /\ ret.err = "none"
        /\ ret.val = Num(0)
        /\ ~ReadsCondensedEntry

\* C24: generateConnectivityMatrix uses every variable that preprocessDataset
\* treats as pairwise, the one with the dimensions component, space and
\* space_2 in any order: a pair of regions that such a variable connects is
\* adjacent in the matrix returned, and no other pair is.
C24_SamePairwiseVariables ==
    adjacency.set =>
        \A i, j \in Range(sds.n_regions) :
            i < j =>
                adjacency.val[i][j] =
                    (IF checkConnectivity(i, j, AffinityOfDataset,
                                          connectComponents(sds.component_list))
                     THEN Num(1) ELSE Num(0))

====
